---- MODULE Spec2Model ----
(***************************************************************************)
(* Model of the LLVM builder scripts: build.py (configuration resolution,  *)
(* cmake flag construction, command sequencing), utils.py (host            *)
(* environment, command runner) and checkout.py (git clone).               *)
(*                                                                         *)
(* A Python str is a sequence of atoms (TLA+ strings); concatenation is    *)
(* \o, so join, replace and shlex.quote are computed and not assumed.      *)
(* A list of str is a sequence of such sequences.  An optional value is a  *)
(* record [some, v]; None is [some |-> FALSE, v |-> <<>>].                 *)
(***************************************************************************)
EXTENDS Integers, Sequences, FiniteSets, TLC

VARIABLES
    host,       \* sys.platform
    script,     \* which entry point runs: "build", "checkout" or "call"
    args,       \* the parsed command line (argparse namespace)
    which,      \* shutil.which results observed so far, per tool
    env,        \* utils globals: vsdevcmd, isysroot, ninja, cmake, git
    git,        \* checkout.py's own module global `git`
    document,   \* what reading the --config file gave (None until read)
    config,     \* the resolved build configuration (None until resolved)
    commands,   \* the command list built by llvm_build_commands
    idx,        \* index of the next command of the loop in build()
    cwd,        \* the process's current directory
    dirs,       \* directories created by this process
    stdout,     \* the "Running command: ..." lines printed so far
    started,    \* subprocesses started so far, with their exit status
    pc,         \* position of the script
    status,     \* "running", "ok", "fatal" (sys.exit(msg)), "exception"
    call,       \* inputs of a direct call of construct_cmake_flags
    cmake_args, \* result of that call (None before the call)
    dest_exists \* what os.path.exists(destination) gave in checkout.py:
                \* "unasked", "yes" or "no"

vars == <<host, script, args, which, env, git, document, config, commands, idx, cwd,
          dirs, stdout, started, pc, status, call, cmake_args, dest_exists>>

(***************************************************************************)
(* Bounds of the enumerated inputs.                                        *)
(***************************************************************************)
MaxListLen == 2
MaxUserFlags == 1

(***************************************************************************)
(* Optional values and strings.                                            *)
(***************************************************************************)
None == [some |-> FALSE, v |-> <<>>]
Some(x) == [some |-> TRUE, v |-> x]

\* Python truthiness of an optional str or list: not None and not empty.
Truthy(o) == o.some /\ o.v # <<>>

SeqsUpTo(S, n) == UNION {[1..k -> S] : k \in 0..n}

RECURSIVE Join(_, _)
\* sep.join(list) for a list of strings
Join(sep, list) ==
    IF list = <<>> THEN <<>>
    ELSE IF Len(list) = 1 THEN list[1]
    ELSE list[1] \o <<sep>> \o Join(sep, Tail(list))

\* s.replace(a, b) for single-character a and b
Replace(s, a, b) == [i \in 1..Len(s) |-> IF s[i] = a THEN b ELSE s[i]]

Range(s) == {s[i] : i \in 1..Len(s)}

(***************************************************************************)
(* Host predicates (utils.py).                                             *)
(***************************************************************************)
Hosts == {"win32", "linux", "darwin"}

host_is_windows(h) == h = "win32"
host_is_linux(h) == h = "linux"
host_is_darwin(h) == h = "darwin"

(***************************************************************************)
(* Presets and platform flag sets (build.py).                              *)
(***************************************************************************)
user_dist_components(h) ==
    << <<"clang">>, <<"libclang">>, <<"lld">>, <<"llvm-cov">>, <<"llvm-profdata">>,
       <<"llvm-ar">>, <<"clang-resource-headers">> >>
    \o (IF host_is_linux(h) THEN << <<"compiler_rt">> >> ELSE <<>>)

bootstrap_flags(h) ==
    IF host_is_darwin(h)
    THEN << <<"-DCOMPILER_RT_BUILD_CRT=", "OFF">>,
            <<"-DCOMPILER_RT_BUILD_LIBFUZZER=", "OFF">>,
            <<"-DCOMPILER_RT_BUILD_SANITIZERS=", "OFF">>,
            <<"-DCOMPILER_RT_BUILD_XRAY=", "OFF">>,
            <<"-DCOMPILER_RT_ENABLE_IOS=", "OFF">>,
            <<"-DCOMPILER_RT_ENABLE_WATCHOS=", "OFF">>,
            <<"-DCOMPILER_RT_ENABLE_TVOS=", "OFF">> >>
    ELSE <<>>

dist_flags(h) ==
    << <<"-DCLANG_LINKS_TO_CREATE=", "clang++">>,
       <<"-DLLD_SYMLINKS_TO_CREATE=", "ld.lld", ";", "wasm-ld">> >>
    \o (IF host_is_darwin(h) THEN << <<"-DLIBCXX_USE_COMPILER_RT=", "ON">> >> ELSE <<>>)

platform_common_flags(h) ==
    IF host_is_windows(h)
    THEN << <<"-DLLVM_USE_CRT_RELEASE=", "MT">>,
            <<"-DCMAKE_MSVC_RUNTIME_LIBRARY=", "MultiThreaded">>,
            <<"-DLLVM_ENABLE_DIA_SDK=", "OFF">> >>
    ELSE IF host_is_darwin(h) THEN << <<"-DLLVM_ENABLE_LIBCXX=", "ON">> >>
    ELSE IF host_is_linux(h) THEN <<>>
    ELSE <<>>

default_projects ==
    << <<"clang">>, <<"lld">>, <<"libcxx">>, <<"libcxxabi">>, <<"compiler-rt">> >>

bootstrap_build_config(h) ==
    [target_backends |-> Some(<< <<"Native">> >>),
     distribution_components |-> None,
     build_targets |-> << <<"install">> >>,
     projects |-> Some(default_projects),
     runtimes |-> None,
     build_type |-> <<"Release">>,
     cmake_flags |-> Some(bootstrap_flags(h)),
     use_default_cmake_flags |-> TRUE]

dev_build_config(h) ==
    [target_backends |-> None,
     distribution_components |-> None,
     build_targets |-> << <<"install-distribution">> >>,
     projects |-> Some(default_projects),
     runtimes |-> None,
     build_type |-> <<"Release">>,
     cmake_flags |-> Some(dist_flags(h)),
     use_default_cmake_flags |-> TRUE]

user_build_config(h) ==
    [target_backends |-> None,
     distribution_components |-> Some(user_dist_components(h)),
     build_targets |-> << <<"install-distribution">> >>,
     projects |-> Some(default_projects),
     runtimes |-> None,
     build_type |-> <<"Release">>,
     cmake_flags |-> Some(dist_flags(h)),
     use_default_cmake_flags |-> TRUE]

(***************************************************************************)
(* construct_cmake_flags (build.py), one operator per group of appends.    *)
(***************************************************************************)
\* lines 150-154: build type, platform defaults, the caller's cmake_flags
build_type_flags(c) == << <<"-DCMAKE_BUILD_TYPE=">> \o c.build_type >>

\* the platform defaults added whatever use_default_cmake_flags says
DefaultFlagsAlways(h, c) == platform_common_flags(h)

default_flags(h, c) ==
    IF c.use_default_cmake_flags THEN platform_common_flags(h) ELSE <<>>

user_flags(c) == IF Truthy(c.cmake_flags) THEN c.cmake_flags.v ELSE <<>>

\* the Linux branch taken on macOS too: a linker override, no SDK flags
BootstrapToolsWithLinker(h, sysroot, bootstrap_llvm_path) ==
    LET p == bootstrap_llvm_path.v
        no == [c_compiler |-> None, cxx_compiler |-> None, linker |-> None, ar |-> None,
               c_flags |-> None, cxx_flags |-> None, linker_flags |-> None]
    IN  IF ~bootstrap_llvm_path.some THEN no
        ELSE [no EXCEPT
                !.c_compiler = Some(p \o <<"/bin/clang">>),
                !.cxx_compiler = Some(p \o <<"/bin/clang++">>),
                !.linker = Some(p \o <<"/bin/ld.lld">>),
                !.ar = Some(p \o <<"/bin/llvm-ar">>)]

\* lines 156-176: the bootstrap toolchain's tools and flags
bootstrap_tools(h, sysroot, bootstrap_llvm_path) ==
    LET p == bootstrap_llvm_path.v
        no == [c_compiler |-> None, cxx_compiler |-> None, linker |-> None, ar |-> None,
               c_flags |-> None, cxx_flags |-> None, linker_flags |-> None]
    IN  IF ~bootstrap_llvm_path.some THEN no
        ELSE IF host_is_windows(h) THEN
            [no EXCEPT
                !.c_compiler = Some(Replace(p \o <<"/bin/clang-cl.exe">>, "\\", "/")),
                !.cxx_compiler = Some(Replace(p \o <<"/bin/clang-cl.exe">>, "\\", "/")),
                !.linker = Some(Replace(p \o <<"/bin/lld-link.exe">>, "\\", "/")),
                !.ar = Some(Replace(p \o <<"/bin/llvm-lib.exe">>, "\\", "/"))]
        ELSE IF host_is_linux(h) THEN
            [no EXCEPT
                !.c_compiler = Some(p \o <<"/bin/clang">>),
                !.cxx_compiler = Some(p \o <<"/bin/clang++">>),
                !.linker = Some(p \o <<"/bin/ld.lld">>),
                !.ar = Some(p \o <<"/bin/llvm-ar">>)]
        ELSE IF host_is_darwin(h) THEN
            [no EXCEPT
                !.c_compiler = Some(p \o <<"/bin/clang">>),
                !.cxx_compiler = Some(p \o <<"/bin/clang++">>),
                !.linker = None,
                !.ar = Some(p \o <<"/bin/llvm-ar">>),
                !.c_flags = Some(<< <<"-isysroot">>, sysroot.v >>),
                !.cxx_flags = Some(<< <<"-isysroot">>, sysroot.v, <<"-stdlib=libc++">> >>),
                !.linker_flags = Some(<< <<"-stdlib=libc++">> >>)]
        ELSE no

\* lines 178-183: the three lists tested with `is not None`
target_backends_flag(c) ==
    IF c.target_backends.some
    THEN << <<"-DLLVM_TARGETS_TO_BUILD=">> \o Join(";", c.target_backends.v) >>
    ELSE <<>>

projects_flag(c) ==
    IF c.projects.some
    THEN << <<"-DLLVM_ENABLE_PROJECTS=">> \o Join(";", c.projects.v) >>
    ELSE <<>>

\* runtimes tested by truthiness, as distribution_components is
RuntimesFlagIfTruthy(c) ==
    IF Truthy(c.runtimes)
    THEN << <<"-DLLVM_ENABLE_RUNTIMES=">> \o Join(";", c.runtimes.v) >>
    ELSE <<>>

runtimes_flag(c) ==
    IF c.runtimes.some
    THEN << <<"-DLLVM_ENABLE_RUNTIMES=">> \o Join(";", c.runtimes.v) >>
    ELSE <<>>

\* a join that loses the order of the entries
ReversedComponentsFlag(c) ==
    IF Truthy(c.distribution_components)
    THEN LET l == c.distribution_components.v
         IN  << <<"-DLLVM_DISTRIBUTION_COMPONENTS=">>
                \o Join(";", [i \in 1..Len(l) |-> l[Len(l) + 1 - i]]) >>
    ELSE <<>>

\* lines 184-185: tested by truthiness, so None and [] both emit nothing
distribution_components_flag(c) ==
    IF Truthy(c.distribution_components)
    THEN << <<"-DLLVM_DISTRIBUTION_COMPONENTS=">> \o Join(";", c.distribution_components.v) >>
    ELSE <<>>

\* lines 186-187
install_prefix_flag(install_path) ==
    IF install_path.some THEN << <<"-DCMAKE_INSTALL_PREFIX=">> \o install_path.v >> ELSE <<>>

OptFlag(key, o) == IF o.some THEN << <<key>> \o o.v >> ELSE <<>>
OptJoined(key, o) == IF o.some THEN << <<key>> \o Join(" ", o.v) >> ELSE <<>>

\* lines 188-203
bootstrap_tool_flags(t) ==
    OptFlag("-DCMAKE_C_COMPILER=", t.c_compiler)
    \o OptFlag("-DCMAKE_CXX_COMPILER=", t.cxx_compiler)
    \o OptFlag("-DCMAKE_LINKER=", t.linker)
    \o OptFlag("-DCMAKE_AR=", t.ar)
    \o OptJoined("-DCMAKE_C_FLAGS=", t.c_flags)
    \o OptJoined("-DCMAKE_CXX_FLAGS=", t.cxx_flags)
    \o OptJoined("-DCMAKE_EXE_LINKER_FLAGS=", t.linker_flags)
    \o OptJoined("-DCMAKE_MODULE_LINKER_FLAGS=", t.linker_flags)
    \o OptJoined("-DCMAKE_SHARED_LINKER_FLAGS=", t.linker_flags)

\* the bootstrap overrides appended before the list-valued flags
ConstructOverridesFirst(h, sysroot, bootstrap_llvm_path, install_path, c) ==
    build_type_flags(c)
    \o default_flags(h, c)
    \o user_flags(c)
    \o bootstrap_tool_flags(bootstrap_tools(h, sysroot, bootstrap_llvm_path))
    \o target_backends_flag(c)
    \o projects_flag(c)
    \o runtimes_flag(c)
    \o distribution_components_flag(c)
    \o install_prefix_flag(install_path)

construct_cmake_flags(h, sysroot, bootstrap_llvm_path, install_path, c) ==
    build_type_flags(c)
    \o default_flags(h, c)
    \o user_flags(c)
    \o target_backends_flag(c)
    \o projects_flag(c)
    \o runtimes_flag(c)
    \o distribution_components_flag(c)
    \o install_prefix_flag(install_path)
    \o bootstrap_tool_flags(bootstrap_tools(h, sysroot, bootstrap_llvm_path))

(***************************************************************************)
(* Process state at start-up (module-level assignments of utils.py and     *)
(* checkout.py, argparse defaults of build.py).                            *)
(***************************************************************************)
\* utils.py lines 10-14
ModuleEnv ==
    [vsdevcmd |-> None, isysroot |-> None,
     ninja |-> <<"ninja">>, cmake |-> <<"cmake">>, git |-> <<"git">>]

\* checkout.py line 12
ModuleGit == <<"git">>

\* argparse defaults: utils.add_common_args and the two build_parser functions
DefaultArgs ==
    [ninja |-> None, cmake |-> None, git |-> None, vsdevcmd |-> None, isysroot |-> None,
     dry_run |-> FALSE, llvm_src |-> None, bootstrap_path |-> None, config |-> None,
     output |-> <<"llvm-dist">>, build_path |-> <<"build">>,
     repo |-> None, branch |-> None]

NoLookups == [ninja |-> "unasked", cmake |-> "unasked", git |-> "unasked"]

NoCall == [bootstrap_llvm_path |-> None, install_path |-> None, config |-> None]

\* the SDK path xcrun reports, or the --isysroot override
SdkPath == <<"/Xcode/SDKs/MacOSX.sdk">>

(***************************************************************************)
(* Direct calls of construct_cmake_flags: every input drawn from a set.    *)
(***************************************************************************)
Components == {<<"clang">>, <<"lld">>}

\* raw flags a configuration document may carry in cmake_flags; entries are
\* arbitrary strings, so they may repeat keys the builder also writes
UserFlagSet ==
    { <<"-DLLVM_BUILD_UTILS=", "ON">>,
      <<"-DLLVM_ENABLE_LIBCXX=", "ON">>,
      <<"-DLLVM_DISTRIBUTION_COMPONENTS=", "custom">>,
      <<"-DCMAKE_LINKER=", "/usr/bin/ld">> }

ListChoices(l) == {None, Some(<<>>), Some(l)}

CallConfigs ==
    [target_backends : ListChoices(<< <<"Native">> >>),
     distribution_components : {None} \cup {Some(l) : l \in SeqsUpTo(Components, MaxListLen)},
     build_targets : { << <<"install">> >> },
     projects : ListChoices(default_projects),
     runtimes : ListChoices(<< <<"libcxx">>, <<"libcxxabi">> >>),
     build_type : { <<"Release">> },
     cmake_flags : {None} \cup {Some(l) : l \in SeqsUpTo(UserFlagSet, MaxUserFlags)},
     use_default_cmake_flags : BOOLEAN]

CallBootstrapPaths == {None, Some(<<"/opt/llvm10">>), Some(<<"C:", "\\", "llvm10">>)}
CallInstallPaths == {None, Some(<<"/work/llvm-dist">>)}

InitCall ==
    /\ host \in Hosts
    /\ script = "call"
    /\ args = DefaultArgs
    /\ which = NoLookups
    /\ env = IF host_is_darwin(host) THEN [ModuleEnv EXCEPT !.isysroot = Some(SdkPath)]
             ELSE ModuleEnv
    /\ git = ModuleGit
    /\ document = None
    /\ config = None
    /\ commands = <<>>
    /\ idx = 1
    /\ cwd = <<"/work">>
    /\ dirs = {}
    /\ stdout = <<>>
    /\ started = <<>>
    /\ pc = "call"
    /\ status = "running"
    /\ call \in [bootstrap_llvm_path : CallBootstrapPaths,
                 install_path : CallInstallPaths,
                 config : {Some(c) : c \in CallConfigs}]
    /\ cmake_args = None
    /\ dest_exists = "unasked"

ConstructCmakeFlags ==
    /\ script = "call"
    /\ pc = "call"
    /\ cmake_args' = Some(construct_cmake_flags(host, env.isysroot, call.bootstrap_llvm_path,
                                                call.install_path, call.config.v))
    /\ pc' = "done"
    /\ status' = "ok"
    /\ UNCHANGED <<host, script, args, which, env, git, document, config, commands, idx,
                   cwd, dirs, stdout, started, call, dest_exists>>

NextCall == ConstructCmakeFlags

SpecCall == InitCall /\ [][NextCall]_vars

(***************************************************************************)
(* Paths (utils.absolute_path, os.path).                                   *)
(***************************************************************************)
\* os.sep
Sep(h) == IF host_is_windows(h) THEN "\\" ELSE "/"

\* os.path.abspath(p) with current directory cur.  posixpath: a path is
\* absolute iff it starts with "/".  ntpath: drive and root make it absolute,
\* a rooted path takes the drive of cur, and "/" is normalised to "\".
abspath(h, cur, p) ==
    IF host_is_windows(h)
    THEN LET q == IF Len(p) >= 2 /\ p[1] = "C:" /\ p[2] \in {"\\", "/"} THEN p
                  ELSE IF p # <<>> /\ p[1] \in {"\\", "/"} THEN <<cur[1]>> \o p
                  ELSE cur \o <<"\\">> \o p
         IN  Replace(q, "/", "\\")
    ELSE IF p # <<>> /\ p[1] = "/" THEN p
    ELSE cur \o <<"/">> \o p

\* a path left as given
AbsolutePathAsGiven(h, cur, path) == path

\* utils.absolute_path
absolute_path(h, cur, path) ==
    IF path.some THEN Some(Replace(abspath(h, cur, path.v), "\\", "/")) ELSE None

(***************************************************************************)
(* Command runner (utils.run_command).                                     *)
(***************************************************************************)
\* atoms holding a character outside shlex's safe set [A-Za-z0-9_@%+=:,./-]
UnsafeAtoms == {";", " ", "\\", "&&", "'"}

\* shlex.quote
Quote(s) ==
    IF s = <<>> THEN <<"''">>
    ELSE IF Range(s) \cap UnsafeAtoms = {} THEN s
    ELSE <<"'">> \o Replace(s, "'", "'\"'\"'") \o <<"'">>

\* the command line run_command prints and hands to the shell
CommandLine(h, e, command) ==
    IF host_is_windows(h)
    THEN Join(" ", <<e.vsdevcmd.v, <<"-arch=amd64">>, <<"&&">> >> \o command)
    ELSE Join(" ", [i \in 1..Len(command) |-> Quote(command[i])])

\* subprocess.run without check=True
NeverRaises(rc) == FALSE

\* subprocess.run(..., check=True): a non-zero exit status raises
check_raises(rc) == rc # 0

\* run_command that starts the subprocess whatever dry_run says
RunCommandIgnoringDryRun(h, e, command, dry, rc, cur) ==
    IF host_is_windows(h) /\ ~e.vsdevcmd.some
    THEN [printed |-> <<>>, ran |-> <<>>, outcome |-> "fatal"]
    ELSE [printed |-> <<CommandLine(h, e, command)>>,
          ran |-> << [line |-> CommandLine(h, e, command), rc |-> rc, cwd |-> cur] >>,
          outcome |-> IF check_raises(rc) THEN "exception" ELSE "returned"]

\* run_command(command, dry_run) when the subprocess, if started, exits with
\* rc: what is printed, what is started, and how the call ends
run_command(h, e, command, dry, rc, cur) ==
    IF host_is_windows(h) /\ ~e.vsdevcmd.some
    THEN [printed |-> <<>>, ran |-> <<>>, outcome |-> "fatal"]
    ELSE IF dry
    THEN [printed |-> <<CommandLine(h, e, command)>>, ran |-> <<>>, outcome |-> "returned"]
    ELSE [printed |-> <<CommandLine(h, e, command)>>,
          ran |-> << [line |-> CommandLine(h, e, command), rc |-> rc, cwd |-> cur] >>,
          outcome |-> IF check_raises(rc) THEN "exception" ELSE "returned"]

ExitCodes == {0, 1}

(***************************************************************************)
(* Host environment (utils.setup_environment).                             *)
(***************************************************************************)
Tools == {"ninja", "cmake", "git"}

\* a tool that is not found is left at its default and the script goes on
ResolveToolLenient(r, a, tool, found) ==
    IF ~r.ok THEN r
    ELSE IF Truthy(a[tool]) THEN [r EXCEPT !.env[tool] = a[tool].v]
    ELSE IF ~found THEN [r EXCEPT !.which[tool] = "missing"]
    ELSE [r EXCEPT !.which[tool] = "found"]

\* one `if args.X: ... elif shutil.which(X) is None: sys.exit(...)` block;
\* r is the state so far, found whether X is on the search path
resolve_tool(r, a, tool, found) ==
    IF ~r.ok THEN r
    ELSE IF Truthy(a[tool]) THEN [r EXCEPT !.env[tool] = a[tool].v]
    ELSE IF ~found THEN [r EXCEPT !.which[tool] = "missing", !.ok = FALSE]
    ELSE [r EXCEPT !.which[tool] = "found"]

\* lines 109-120: ninja, cmake and git in that order
resolve_tools(e, a, found) ==
    resolve_tool(
        resolve_tool(
            resolve_tool([env |-> e, which |-> NoLookups, ok |-> TRUE], a, "ninja", found["ninja"]),
            a, "cmake", found["cmake"]),
        a, "git", found["git"])

DetectedVsDevCmd == <<"C:/VS/Common7/Tools/vsdevcmd.bat">>

(***************************************************************************)
(* Configuration resolution (build.prepare_config, LlvmBuildConfig).       *)
(***************************************************************************)
\* a document's values with the absent ones taken from the dev preset
PrepareConfigMerging(h, config_param, doc) ==
    IF config_param = Some(<<"predefined/bootstrap">>) THEN Some(bootstrap_build_config(h))
    ELSE IF config_param = Some(<<"predefined/dev">>) THEN Some(dev_build_config(h))
    ELSE IF config_param = Some(<<"predefined/user">>) THEN Some(user_build_config(h))
    ELSE IF ~config_param.some THEN None
    ELSE Some([doc EXCEPT
                  !.projects = IF doc.projects.some THEN doc.projects
                               ELSE dev_build_config(h).projects,
                  !.cmake_flags = IF doc.cmake_flags.some THEN doc.cmake_flags
                                  ELSE dev_build_config(h).cmake_flags])

\* prepare_config; doc is the parsed content of the file, None is sys.exit
prepare_config(h, config_param, doc) ==
    IF config_param = Some(<<"predefined/bootstrap">>) THEN Some(bootstrap_build_config(h))
    ELSE IF config_param = Some(<<"predefined/dev">>) THEN Some(dev_build_config(h))
    ELSE IF config_param = Some(<<"predefined/user">>) THEN Some(user_build_config(h))
    ELSE IF ~config_param.some THEN None
    ELSE Some(doc)

Presets == {<<"predefined/bootstrap">>, <<"predefined/dev">>, <<"predefined/user">>}

\* documents a --config file may hold
Documents ==
    { [target_backends |-> None, distribution_components |-> None,
       build_targets |-> << <<"all">> >>, projects |-> None, runtimes |-> None,
       build_type |-> <<"Debug">>, cmake_flags |-> None,
       use_default_cmake_flags |-> FALSE],
      [target_backends |-> Some(<< <<"X86">>, <<"AArch64">> >>),
       distribution_components |-> Some(<<>>),
       build_targets |-> << <<"install">> >>, projects |-> Some(<< <<"clang">> >>),
       runtimes |-> Some(<< <<"libcxx">> >>),
       build_type |-> <<"Release">>,
       cmake_flags |-> Some(<< <<"-DLLVM_ENABLE_LIBCXX=", "ON">> >>),
       use_default_cmake_flags |-> FALSE],
      [target_backends |-> None,
       distribution_components |-> Some(<< <<"lld">>, <<"clang">> >>),
       build_targets |-> << <<"install-distribution">> >>, projects |-> Some(default_projects),
       runtimes |-> None,
       build_type |-> <<"Release">>,
       cmake_flags |-> Some(<<>>),
       use_default_cmake_flags |-> TRUE] }

\* reading the file can also fail: open() raises, json.loads raises, or
\* LlvmBuildConfig raises KeyError on a document that lacks a key
ReadFailures == {"unreadable", "malformed", "incomplete"}

(***************************************************************************)
(* Command construction (build.llvm_build_commands).                       *)
(***************************************************************************)
\* os.path.join(llvm_src, "llvm")
path_join(h, a, b) == a \o <<Sep(h)>> \o b

llvm_build_commands(h, e, install_path, bootstrap_path, llvm_src, c) ==
    << <<e.cmake, <<"-G">>, <<"Ninja">> >>
          \o construct_cmake_flags(h, e.isysroot, bootstrap_path, install_path, c)
          \o << path_join(h, llvm_src.v, <<"llvm">>) >>,
       <<e.ninja>> \o c.build_targets >>

(***************************************************************************)
(* The scripts: build.py main() and checkout.py main().                    *)
(***************************************************************************)
StartDir(h) == IF host_is_windows(h) THEN <<"C:", "\\", "work">> ELSE <<"/", "work">>

\* --ninja/--cmake/--git: not given, given empty, given a path
ToolOverrides(tool) == {None, Some(<<>>), Some(<<"/opt/tools/", tool>>)}

BuildArgs(h) ==
    [ninja : ToolOverrides("ninja"), cmake : ToolOverrides("cmake"),
     git : ToolOverrides("git"),
     vsdevcmd : IF host_is_windows(h) THEN {None, Some(<<"C:/vs/vsdevcmd.bat">>)} ELSE {None},
     isysroot : IF host_is_darwin(h) THEN {None, Some(<<"/sdk">>)} ELSE {None},
     dry_run : BOOLEAN,
     llvm_src : {None, Some(<<"llvm-project">>)},
     bootstrap_path : {None, Some(<<"stage1">>)},
     config : {None, Some(<<"predefined/bootstrap">>), Some(<<"predefined/dev">>),
               Some(<<"predefined/user">>), Some(<<"my.json">>)},
     output : {<<"llvm-dist">>},
     build_path : {<<"build">>, <<"out", Sep(h), "b">>},
     repo : {None}, branch : {None}]

CheckoutArgs ==
    [ninja : {None}, cmake : {None}, git : ToolOverrides("git"),
     vsdevcmd : {None}, isysroot : {None},
     dry_run : BOOLEAN,
     llvm_src : {None}, bootstrap_path : {None}, config : {None},
     output : {<<"llvm-project">>, <<"src", "/", "llvm">>},
     build_path : {<<"build">>},
     repo : {None, Some(<<"https://example.org/fork">>)},
     branch : {None, Some(<<"main">>)}]

Init ==
    /\ host \in Hosts
    /\ script \in {"build", "checkout"}
    /\ args \in (IF script = "build" THEN BuildArgs(host) ELSE CheckoutArgs)
    /\ which = NoLookups
    /\ env = ModuleEnv
    /\ git = ModuleGit
    /\ document = None
    /\ config = None
    /\ commands = <<>>
    /\ idx = 1
    /\ cwd = StartDir(host)
    /\ dirs = {}
    /\ stdout = <<>>
    /\ started = <<>>
    /\ pc = "setup"
    /\ status = "running"
    /\ call = NoCall
    /\ cmake_args = None
    /\ dest_exists = "unasked"

\* the process ends: sys.exit(msg) is "fatal", an uncaught exception "exception"
Ends(how) == pc' = "done" /\ status' = how

\* utils.setup_environment(args), called from build.main
SetupEnvironment ==
    /\ script = "build" /\ pc = "setup"
    /\ \E found \in [Tools -> BOOLEAN], detect \in {"path", "fatal", "exception"} :
        LET r == resolve_tools(env, args, found)
        IN  /\ which' = r.which
            /\ IF ~r.ok THEN env' = r.env /\ Ends("fatal")
               ELSE IF host_is_windows(host) THEN
                    IF Truthy(args.vsdevcmd)
                    THEN env' = [r.env EXCEPT !.vsdevcmd = args.vsdevcmd]
                         /\ pc' = "prepare_config" /\ status' = status
                    ELSE IF detect = "path"
                    THEN env' = [r.env EXCEPT !.vsdevcmd = Some(DetectedVsDevCmd)]
                         /\ pc' = "prepare_config" /\ status' = status
                    ELSE env' = r.env /\ Ends(detect)
               ELSE IF host_is_darwin(host) THEN
                    IF Truthy(args.isysroot)
                    THEN env' = [r.env EXCEPT !.isysroot = args.isysroot]
                         /\ pc' = "prepare_config" /\ status' = status
                    ELSE IF detect = "path"
                    THEN env' = [r.env EXCEPT !.isysroot = Some(SdkPath)]
                         /\ pc' = "prepare_config" /\ status' = status
                    ELSE env' = r.env /\ Ends("exception")
               ELSE env' = r.env /\ pc' = "prepare_config" /\ status' = status
    /\ UNCHANGED <<host, script, args, git, document, config, commands, idx, cwd, dirs,
                   stdout, started, call, cmake_args, dest_exists>>

\* build.main lines 277-280: prepare_config and LlvmBuildConfig
PrepareConfig ==
    /\ script = "build" /\ pc = "prepare_config"
    /\ IF ~args.config.some \/ args.config.v \in Presets
       THEN /\ document' = document
            /\ config' = prepare_config(host, args.config, None)
            /\ IF config'.some THEN pc' = "build" /\ status' = status ELSE Ends("fatal")
       ELSE \E read \in {"ok"} \cup ReadFailures, content \in Documents :
            IF read \in ReadFailures
            THEN document' = document /\ config' = config /\ Ends("exception")
            ELSE /\ document' = Some(content)
                 /\ config' = prepare_config(host, args.config, content)
                 /\ pc' = "build" /\ status' = status
    /\ UNCHANGED <<host, script, args, which, env, git, commands, idx, cwd, dirs, stdout,
                   started, call, cmake_args, dest_exists>>

\* build() lines 227-232: the paths made absolute, the commands constructed
BuildCommands ==
    /\ script = "build" /\ pc = "build"
    /\ IF ~args.llvm_src.some
       THEN commands' = commands /\ Ends("exception")
       ELSE /\ commands' = llvm_build_commands(host, env,
                               absolute_path(host, cwd, Some(args.output)),
                               absolute_path(host, cwd, args.bootstrap_path),
                               absolute_path(host, cwd, args.llvm_src),
                               config.v)
            /\ pc' = "mkdir" /\ status' = status
    /\ UNCHANGED <<host, script, args, which, env, git, document, config, idx, cwd, dirs,
                   stdout, started, call, cmake_args, dest_exists>>

\* build() line 233: pathlib.Path(build_path).mkdir(parents=True, exist_ok=True)
MakeBuildDir ==
    /\ script = "build" /\ pc = "mkdir"
    /\ \E ok \in BOOLEAN :
        IF ok THEN /\ dirs' = dirs \cup {abspath(host, cwd, args.build_path)}
                   /\ pc' = "chdir" /\ status' = status
        ELSE dirs' = dirs /\ Ends("exception")
    /\ UNCHANGED <<host, script, args, which, env, git, document, config, commands, idx, cwd,
                   stdout, started, call, cmake_args, dest_exists>>

\* the directory the operating system resolves a path to
Resolved(h, p) == IF host_is_windows(h) THEN Replace(p, "/", "\\") ELSE p

\* build() lines 234-235: os.chdir(utils.absolute_path(build_path))
ChangeDir ==
    /\ script = "build" /\ pc = "chdir"
    /\ LET target == Resolved(host, absolute_path(host, cwd, Some(args.build_path)).v)
       IN  \E ok \in BOOLEAN :
            IF ok /\ target \in dirs THEN cwd' = target /\ pc' = "run" /\ status' = status
            ELSE cwd' = cwd /\ Ends("exception")
    /\ UNCHANGED <<host, script, args, which, env, git, document, config, commands, idx, dirs,
                   stdout, started, call, cmake_args, dest_exists>>

\* build() lines 236-237: one iteration of the loop, i.e. one run_command
RunCommand ==
    /\ script = "build" /\ pc = "run" /\ idx <= Len(commands)
    /\ \E rc \in ExitCodes :
        LET r == run_command(host, env, commands[idx], args.dry_run, rc, cwd)
        IN  /\ stdout' = stdout \o r.printed
            /\ started' = started \o r.ran
            /\ IF r.outcome # "returned" THEN idx' = idx /\ Ends(r.outcome)
               ELSE /\ idx' = idx + 1
                    /\ IF idx' > Len(commands) THEN Ends("ok")
                       ELSE pc' = pc /\ status' = status
    /\ UNCHANGED <<host, script, args, which, env, git, document, config, commands, cwd, dirs,
                   call, cmake_args, dest_exists>>

\* checkout.setup(args)
CheckoutSetup ==
    /\ script = "checkout" /\ pc = "setup"
    /\ \E found \in BOOLEAN :
        IF Truthy(args.git)
        THEN git' = args.git.v /\ which' = which /\ pc' = "clone" /\ status' = status
        ELSE IF ~found
        THEN git' = git /\ which' = [which EXCEPT !.git = "missing"] /\ Ends("fatal")
        ELSE git' = git /\ which' = [which EXCEPT !.git = "found"]
             /\ pc' = "clone" /\ status' = status
    /\ UNCHANGED <<host, script, args, env, document, config, commands, idx, cwd, dirs,
                   stdout, started, call, cmake_args, dest_exists>>

\* the host's default repository and branch used even when one is given
CloneCommandDefaultsOnly(h, g, repo, branch) ==
    LET default_repo == IF host_is_darwin(h) THEN <<"https://github.com/apple/llvm-project">>
                        ELSE <<"https://github.com/llvm/llvm-project">>
        default_branch == IF host_is_darwin(h) THEN <<"apple/stable/20200714">>
                          ELSE <<"release/11.x">>
    IN  <<g, <<"clone">>, default_repo, <<"--branch">>, default_branch,
          <<"--depth">>, <<"1">>, <<"llvm-project">> >>

\* the command clone_llvm_repository builds (checkout.py lines 22-29)
clone_command(h, g, repo, branch) ==
    LET default_repo == IF host_is_darwin(h) THEN <<"https://github.com/apple/llvm-project">>
                        ELSE <<"https://github.com/llvm/llvm-project">>
        default_branch == IF host_is_darwin(h) THEN <<"apple/stable/20200714">>
                          ELSE <<"release/11.x">>
    IN  <<g, <<"clone">>, IF repo.some THEN repo.v ELSE default_repo,
          <<"--branch">>, IF branch.some THEN branch.v ELSE default_branch,
          <<"--depth">>, <<"1">>, <<"llvm-project">> >>

\* checkout.clone_llvm_repository(args.repo, args.branch, args.output, dry_run)
CloneLlvmRepository ==
    /\ script = "checkout" /\ pc = "clone"
    /\ \E exists \in BOOLEAN, rc \in ExitCodes :
        IF exists
        THEN /\ dest_exists' = "yes"
             /\ commands' = commands /\ stdout' = stdout /\ started' = started /\ Ends("ok")
        ELSE LET command == clone_command(host, git, args.repo, args.branch)
                 r == run_command(host, env, command, args.dry_run, rc, cwd)
             IN  /\ dest_exists' = "no"
                 /\ commands' = <<command>>
                 /\ stdout' = stdout \o r.printed
                 /\ started' = started \o r.ran
                 /\ Ends(IF r.outcome = "returned" THEN "ok" ELSE r.outcome)
    /\ UNCHANGED <<host, script, args, which, env, git, document, config, idx, cwd, dirs,
                   call, cmake_args>>

Next ==
    \/ SetupEnvironment
    \/ PrepareConfig
    \/ BuildCommands
    \/ MakeBuildDir
    \/ ChangeDir
    \/ RunCommand
    \/ CheckoutSetup
    \/ CloneLlvmRepository

Spec == Init /\ [][Next]_vars

(***************************************************************************)
(* Properties of construct_cmake_flags, checked under SpecCall.            *)
(***************************************************************************)
Called == script = "call" /\ cmake_args.some
Out == cmake_args.v
In == call.config.v

HasKey(f, k) == f # <<>> /\ f[1] = k
Count(flags, k) == Cardinality({i \in 1..Len(flags) : HasKey(flags[i], k)})

\* The value of a joined flag, written position by position: the i-th entry
\* (entries of the enumerated lists are one atom long) and ';' between entries.
JoinedValue(l) ==
    [i \in 1..(2 * Len(l) - 1) |-> IF i % 2 = 1 THEN l[(i + 1) \div 2][1] ELSE ";"]

IsJoinedFlag(f, k, l) == f = <<k>> \o (IF l = <<>> THEN <<>> ELSE JoinedValue(l))

\* Positions of the output: 1 is the build type, then the platform defaults,
\* then the entries copied from cmake_flags, then what the function derives.
NumDefaults == IF In.use_default_cmake_flags THEN Len(platform_common_flags(host)) ELSE 0
NumUser == IF In.cmake_flags.some THEN Len(In.cmake_flags.v) ELSE 0
\* the output without the entries copied verbatim from cmake_flags
Derived == SubSeq(Out, 1, 1 + NumDefaults) \o SubSeq(Out, 2 + NumDefaults + NumUser, Len(Out))

ListKeys ==
    {"-DLLVM_TARGETS_TO_BUILD=", "-DLLVM_ENABLE_PROJECTS=", "-DLLVM_ENABLE_RUNTIMES=",
     "-DLLVM_DISTRIBUTION_COMPONENTS="}
BootstrapKeys ==
    {"-DCMAKE_C_COMPILER=", "-DCMAKE_CXX_COMPILER=", "-DCMAKE_LINKER=", "-DCMAKE_AR=",
     "-DCMAKE_C_FLAGS=", "-DCMAKE_CXX_FLAGS=", "-DCMAKE_EXE_LINKER_FLAGS=",
     "-DCMAKE_MODULE_LINKER_FLAGS=", "-DCMAKE_SHARED_LINKER_FLAGS="}

\* the group a position of the output belongs to
Group(i) ==
    IF i = 1 THEN "build_type"
    ELSE IF i <= 1 + NumDefaults THEN "default"
    ELSE IF i <= 1 + NumDefaults + NumUser THEN "user"
    ELSE IF Out[i][1] \in ListKeys THEN "list"
    ELSE IF Out[i][1] = "-DCMAKE_INSTALL_PREFIX=" THEN "install"
    ELSE IF Out[i][1] \in BootstrapKeys THEN "bootstrap"
    ELSE "other"

\* the leading groups hold what the claim says they hold
LeadingGroups ==
    /\ Len(Out) >= 1 + NumDefaults + NumUser
    /\ Out[1] = <<"-DCMAKE_BUILD_TYPE=">> \o In.build_type
    /\ In.use_default_cmake_flags => SubSeq(Out, 2, 1 + NumDefaults) = platform_common_flags(host)
    /\ In.cmake_flags.some =>
           SubSeq(Out, 2 + NumDefaults, 1 + NumDefaults + NumUser) = In.cmake_flags.v

Ordered(rank) ==
    /\ LeadingGroups
    /\ \A i \in 1..Len(Out) : Group(i) \in DOMAIN rank
    /\ \A i, j \in 1..Len(Out) : i < j => rank[Group(i)] <= rank[Group(j)]

SpecOrder ==
    [build_type |-> 1, default |-> 2, user |-> 3, bootstrap |-> 4, list |-> 5, install |-> 6]
CodeOrder ==
    [build_type |-> 1, default |-> 2, user |-> 3, list |-> 4, install |-> 5, bootstrap |-> 6]

\* C1 as stated: build type, platform defaults, cmake_flags, bootstrap
\* overrides, list-valued flags, install prefix, in that order.
C1_Original == Called => Ordered(SpecOrder)

\* C1 amended: build type, platform defaults, cmake_flags, list-valued flags,
\* install prefix, and the bootstrap override flags last.
C1_FlagOrder == Called => Ordered(CodeOrder)

C1_Witness ==
    /\ Called
    /\ call.bootstrap_llvm_path.some /\ call.install_path.some
    /\ In.use_default_cmake_flags /\ NumDefaults > 0 /\ NumUser > 0
    /\ In.projects.some /\ Truthy(In.distribution_components)

DistKey == "-DLLVM_DISTRIBUTION_COMPONENTS="

DistributionFlagIn(flags) ==
    /\ ~In.distribution_components.some => Count(flags, DistKey) = 0
    /\ Truthy(In.distribution_components) =>
          /\ Count(flags, DistKey) = 1
          /\ \E i \in 1..Len(flags) : IsJoinedFlag(flags[i], DistKey, In.distribution_components.v)

\* C4 as stated: distribution_components absent: no -DLLVM_DISTRIBUTION_COMPONENTS
\* flag in the list; present and non-empty: exactly one, joined by ';' in order.
C4_Original == Called => DistributionFlagIn(Out)

\* C4 amended: the same, of the flags other than the entries copied verbatim
\* from cmake_flags.
C4_DistributionComponents == Called => DistributionFlagIn(Derived)

C4_Witness ==
    /\ Called
    /\ In.distribution_components = Some(<< <<"lld">>, <<"clang">> >>)
    /\ Count(Out, DistKey) = 1

C4_WitnessAbsent == Called /\ ~In.distribution_components.some /\ NumUser > 0

NoDefaultsIn(flags) ==
    \A i \in 1..Len(platform_common_flags(host)) :
        platform_common_flags(host)[i] \notin Range(flags)

\* C5 as stated: use_default_cmake_flags false: no platform-default flag of
\* the host anywhere in the output.
C5_Original == Called /\ ~In.use_default_cmake_flags => NoDefaultsIn(Out)

\* C5 amended: use_default_cmake_flags false: no platform-default flag of the
\* host in the output, other than entries copied verbatim from cmake_flags.
C5_NoDefaultFlags == Called /\ ~In.use_default_cmake_flags => NoDefaultsIn(Derived)

C5_Witness ==
    /\ Called /\ ~In.use_default_cmake_flags
    /\ host_is_windows(host)
    /\ NumUser > 0 /\ call.bootstrap_llvm_path.some

MacBootstrapIn(flags) ==
    /\ <<"-DCMAKE_C_COMPILER=">> \o call.bootstrap_llvm_path.v \o <<"/bin/clang">> \in Range(Out)
    /\ Count(flags, "-DCMAKE_LINKER=") = 0
    /\ \E i \in 1..Len(Out) :
          /\ HasKey(Out[i], "-DCMAKE_C_FLAGS=")
          /\ \E k \in 2..(Len(Out[i]) - 2) :
                Out[i][k] = "-isysroot" /\ Out[i][k + 1] = " " /\ Out[i][k + 2] = env.isysroot.v[1]

\* C8 as stated: macOS with a bootstrap root R: C compiler R/bin/clang, no
\* -DCMAKE_LINKER flag, compiler flags with -isysroot <SDK>.
C8_Original == Called /\ host_is_darwin(host) /\ call.bootstrap_llvm_path.some => MacBootstrapIn(Out)

\* C8 amended: the same, where "no -DCMAKE_LINKER flag" is of the flags other
\* than the entries copied verbatim from cmake_flags.
C8_MacBootstrap ==
    Called /\ host_is_darwin(host) /\ call.bootstrap_llvm_path.some => MacBootstrapIn(Derived)

C8_Witness ==
    /\ Called /\ host_is_darwin(host)
    /\ call.bootstrap_llvm_path = Some(<<"/opt/llvm10">>)
    /\ <<"-DCMAKE_C_COMPILER=", "/opt/llvm10", "/bin/clang">> \in Range(Out)

\* one list field: a flag iff `emitted`, and then one flag with the joined value
ListFlagIn(flags, k, field, emitted) ==
    /\ ~emitted => Count(flags, k) = 0
    /\ emitted => /\ Count(flags, k) = 1
                  /\ \E i \in 1..Len(flags) : IsJoinedFlag(flags[i], k, field.v)

\* C9 as stated: each of the four list fields yields its flag iff it is not
\* None, as one flag with the entries joined by ';'.
C9_Original ==
    Called =>
        /\ ListFlagIn(Out, "-DLLVM_TARGETS_TO_BUILD=", In.target_backends, In.target_backends.some)
        /\ ListFlagIn(Out, "-DLLVM_ENABLE_PROJECTS=", In.projects, In.projects.some)
        /\ ListFlagIn(Out, "-DLLVM_ENABLE_RUNTIMES=", In.runtimes, In.runtimes.some)
        /\ ListFlagIn(Out, DistKey, In.distribution_components, In.distribution_components.some)

\* C9 amended: target_backends, projects and runtimes yield their flag iff not
\* None; distribution_components iff not None and not empty; each as one flag
\* with the entries joined by ';', among the flags other than the entries
\* copied verbatim from cmake_flags.
C9_ListFlags ==
    Called =>
        /\ ListFlagIn(Derived, "-DLLVM_TARGETS_TO_BUILD=", In.target_backends,
                      In.target_backends.some)
        /\ ListFlagIn(Derived, "-DLLVM_ENABLE_PROJECTS=", In.projects, In.projects.some)
        /\ ListFlagIn(Derived, "-DLLVM_ENABLE_RUNTIMES=", In.runtimes, In.runtimes.some)
        /\ ListFlagIn(Derived, DistKey, In.distribution_components,
                      Truthy(In.distribution_components))

C9_Witness ==
    /\ Called
    /\ In.runtimes = Some(<<>>) /\ In.distribution_components = Some(<<>>)
    /\ In.projects = Some(default_projects) /\ ~In.target_backends.some
    /\ Count(Out, "-DLLVM_ENABLE_RUNTIMES=") = 1 /\ Count(Out, DistKey) = 0

(***************************************************************************)
(* Properties of the build and checkout scripts, checked under Spec.       *)
(***************************************************************************)
IsCmake(line) == \E i \in 1..Len(line) : line[i] = "-G"
CmakeLine == CommandLine(host, env, commands[1])
NinjaLine == CommandLine(host, env, commands[2])

\* C2: build() starts the cmake command first and the ninja command only
\* after cmake exited with status zero; a non-zero exit ends the sequence:
\* nothing is started after it and nothing is started twice.
C2_CommandOrder ==
    script = "build" =>
        /\ Len(started) <= 2
        /\ Len(started) >= 1 => started[1].line = CmakeLine /\ IsCmake(started[1].line)
        /\ Len(started) = 2 =>
              /\ started[1].rc = 0
              /\ started[2].line = NinjaLine /\ ~IsCmake(started[2].line)
        /\ \A i \in 1..Len(started) :
              started[i].rc # 0 => i = Len(started) /\ pc = "done" /\ status = "exception"

C2_Witness ==
    /\ script = "build" /\ Len(started) = 2
    /\ started[1].rc = 0 /\ started[2].rc = 1 /\ status = "exception"

\* a step that is one call of run_command
Invoked ==
    \/ script = "build" /\ pc = "run"
    \/ script = "checkout" /\ pc = "clone" /\ commands' # commands
InvokedCommand == IF script = "build" THEN commands[idx] ELSE commands'[1]

\* C3 as stated: with dry_run true, run_command starts no subprocess and
\* prints the command line, on every host and in every environment state.
C3_Original ==
    [][Invoked /\ args.dry_run =>
          started' = started /\ Len(stdout') = Len(stdout) + 1]_vars

\* C3 amended: with dry_run true, run_command starts no subprocess; it prints
\* the command line unless the host is Windows and the dev-shell path is
\* unset, in which case it exits with a fatal error and prints nothing.
C3_DryRun ==
    [][Invoked /\ args.dry_run =>
          /\ started' = started
          /\ IF host_is_windows(host) /\ ~env.vsdevcmd.some
             THEN stdout' = stdout /\ status' = "fatal"
             ELSE stdout' = Append(stdout, CommandLine(host, env, InvokedCommand))]_vars

C3_Witness ==
    /\ script = "build" /\ args.dry_run /\ host_is_windows(host)
    /\ Len(stdout) = 2 /\ started = <<>> /\ status = "ok"

C3_WitnessFatal ==
    /\ script = "checkout" /\ args.dry_run /\ host_is_windows(host)
    /\ commands # <<>> /\ stdout = <<>> /\ status = "fatal"

\* an override counts as given when argparse holds a non-empty string
Given(o) == o.some /\ o.v # <<>>
Missing == {t \in Tools : which[t] = "missing"}
ToolOrder == [ninja |-> 1, cmake |-> 2, git |-> 3]

\* C6: once setup_environment is over, every tool has its override as path
\* when one is given and was otherwise found on the search path; a tool
\* neither given nor found ends the process at once with a fatal error, the
\* later tools are not looked at and no command is constructed or run.
C6_MandatoryTools ==
    script = "build" /\ pc # "setup" =>
        /\ Missing = {} =>
              \A t \in Tools : IF Given(args[t]) THEN env[t] = args[t].v /\ which[t] = "unasked"
                               ELSE env[t] = ModuleEnv[t] /\ which[t] = "found"
        /\ \A t \in Missing :
              /\ ~Given(args[t])
              /\ pc = "done" /\ status = "fatal"
              /\ \A u \in Tools : ToolOrder[u] > ToolOrder[t] =>
                                     which[u] = "unasked" /\ env[u] = ModuleEnv[u]
              /\ ~config.some /\ commands = <<>> /\ dirs = {}
              /\ stdout = <<>> /\ started = <<>>

C6_Witness ==
    /\ script = "build" /\ pc = "done" /\ status = "fatal"
    /\ Given(args.ninja) /\ env.ninja = args.ninja.v
    /\ which.cmake = "missing" /\ Given(args.git)

C6_WitnessRun ==
    /\ script = "build" /\ started # <<>>
    /\ Given(args.cmake) /\ which.ninja = "found" /\ args.git = Some(<<>>)

\* C7: an absent selector ends the process with a fatal error before any
\* command is constructed or run; a preset name yields that preset; any
\* other selector yields the values of the document read, unchanged.
C7_PrepareConfig ==
    /\ [](script = "build" =>
            /\ ~args.config.some => ~config.some /\ commands = <<>> /\ dirs = {}
                                    /\ stdout = <<>> /\ started = <<>>
            /\ config.some =>
                  /\ args.config = Some(<<"predefined/bootstrap">>) =>
                        config.v = bootstrap_build_config(host) /\ ~document.some
                  /\ args.config = Some(<<"predefined/user">>) =>
                        config.v = user_build_config(host) /\ ~document.some
                  /\ args.config = Some(<<"predefined/dev">>) =>
                        config.v = dev_build_config(host) /\ ~document.some
                  /\ args.config.v \notin Presets => document.some /\ config.v = document.v)
    /\ [][script = "build" /\ pc = "prepare_config" /\ ~args.config.some =>
             pc' = "done" /\ status' = "fatal"]_vars

C7_Witness ==
    /\ script = "build" /\ started # <<>>
    /\ args.config = Some(<<"my.json">>) /\ document.some /\ config = document
    /\ ~config.v.projects.some /\ ~config.v.cmake_flags.some

C7_WitnessAbsent ==
    script = "build" /\ ~args.config.some /\ Missing = {} /\ pc = "done" /\ status = "fatal"

\* the absolute, forward-slash form of a relative path given on the command
\* line, resolved against the directory the script was started in
FromStartDir(p) ==
    IF host_is_windows(host) THEN <<"C:", "/", "work", "/">> \o Replace(p, "\\", "/")
    ELSE <<"/", "work", "/">> \o p
\* the build directory as the operating system names it
BuildDir ==
    IF host_is_windows(host) THEN <<"C:", "\\", "work", "\\">> \o args.build_path
    ELSE <<"/", "work", "/">> \o args.build_path
CmakeCommand == commands[1]

\* C10: whenever a command of build() has been printed or started, the build
\* directory has been created and is the current directory, every subprocess
\* was started in it, and the install, bootstrap and source paths in the
\* cmake command are absolute paths resolved against the start directory.
C10_BuildDirectory ==
    script = "build" =>
        /\ stdout # <<>> \/ started # <<>> \/ pc = "run" =>
              BuildDir \in dirs /\ cwd = BuildDir
        /\ \A i \in 1..Len(started) : started[i].cwd = BuildDir
        /\ pc \in {"build", "mkdir", "chdir"} => cwd = StartDir(host)
        /\ commands # <<>> =>
              /\ <<"-DCMAKE_INSTALL_PREFIX=">> \o FromStartDir(args.output) \in Range(CmakeCommand)
              /\ args.bootstrap_path.some =>
                    \E i \in 1..Len(CmakeCommand) :
                        /\ HasKey(CmakeCommand[i], "-DCMAKE_C_COMPILER=")
                        /\ SubSeq(CmakeCommand[i], 2, Len(CmakeCommand[i]) - 1)
                              = FromStartDir(args.bootstrap_path.v)
              /\ CmakeCommand[Len(CmakeCommand)]
                    = FromStartDir(args.llvm_src.v) \o <<Sep(host), "llvm">>

C10_Witness ==
    /\ script = "build" /\ Len(started) = 2 /\ status = "ok"
    /\ args.bootstrap_path.some /\ Len(args.build_path) > 1 /\ cwd = BuildDir

(***************************************************************************)
(* Properties of checkout.py, checked under Spec.                          *)
(***************************************************************************)
\* the repository and branch the clone must name: the argument when given,
\* otherwise the default of the host
ExpectedRepo ==
    IF args.repo.some THEN args.repo.v
    ELSE IF host = "darwin" THEN <<"https://github.com/apple/llvm-project">>
    ELSE <<"https://github.com/llvm/llvm-project">>
ExpectedBranch ==
    IF args.branch.some THEN args.branch.v
    ELSE IF host = "darwin" THEN <<"apple/stable/20200714">>
    ELSE <<"release/11.x">>
ExpectedGit == IF Given(args.git) THEN args.git.v ELSE <<"git">>

C11_WitnessWindows ==
    /\ script = "checkout" /\ dest_exists = "no" /\ host = "win32"
    /\ commands # <<>> /\ status = "fatal" /\ ~env.vsdevcmd.some

C11_WitnessExists ==
    script = "checkout" /\ dest_exists = "yes" /\ pc = "done"

====
